---- MODULE Spec2Model ----
(***************************************************************************)
(* The accessibility-agent GitHub Action                                   *)
(* (.github/actions/accessibility-agent/src/index.ts): run() reads a test  *)
(* configuration, optionally opens a live run on a dashboard, executes     *)
(* every test through runSingleTest (one agent subprocess each), closes    *)
(* the live run and emits outputs and the action's status.                 *)
(*                                                                         *)
(* Text is a sequence of pieces whose concatenation is the text.  Text the *)
(* code scans (configuration files, agent output, URLs) is given one       *)
(* character per piece; a fixed word or message is a single piece.  null,  *)
(* undefined and the empty string are all the empty text <<>>: the code    *)
(* only ever tests such values for truthiness.                             *)
(***************************************************************************)
EXTENDS Integers, Sequences, FiniteSets, TLC

VARIABLES
    pc,                  \* position of run()
    provider, openaiApiKey, geminiApiKey,   \* action inputs
    headless, continueOnFailure, dashboardUrl, dashboardApiKey,
    config,              \* the configuration file named by test-config
    tests,               \* run(): let tests
    liveTestRunId,       \* run(): let liveTestRunId
    i,                   \* run(): loop index
    results,             \* run(): const results
    hasFailure,          \* run(): let hasFailure
    stdout, stderr,      \* runSingleTest(): output captured from the last agent
    dashboardResultsUrl, \* run(): let dashboardResultsUrl
    io,                  \* the calls made so far: startLiveRun, exec, completeLiveRun
    outputs,             \* what core.setOutput has set
    failed               \* what core.setFailed has set

vars == <<pc, provider, openaiApiKey, geminiApiKey, headless, continueOnFailure,
          dashboardUrl, dashboardApiKey, config, tests, liveTestRunId, i,
          results, hasFailure, stdout, stderr, dashboardResultsUrl, io,
          outputs, failed>>

(***************************************************************************)
(* Bounds of the model.                                                    *)
(***************************************************************************)
MaxTests == 3
MaxLines == 2
MaxConfigLen == 5
MaxChunks == 4

(***************************************************************************)
(* Text helpers (JavaScript String methods).                               *)
(***************************************************************************)
Min(a, b) == IF a < b THEN a ELSE b

IsSpace(c) == c \in {" ", "\t", "\r", "\n"}

\* String.prototype.trim
RECURSIVE TrimStart(_)
TrimStart(s) ==
    IF s # <<>> /\ IsSpace(Head(s)) THEN TrimStart(Tail(s)) ELSE s

RECURSIVE TrimEnd(_)
TrimEnd(s) ==
    IF s # <<>> /\ IsSpace(s[Len(s)]) THEN TrimEnd(SubSeq(s, 1, Len(s) - 1)) ELSE s

Trim(s) == TrimEnd(TrimStart(s))

\* String.prototype.startsWith
StartsWith(s, t) == Len(s) >= Len(t) /\ SubSeq(s, 1, Len(t)) = t

\* String.prototype.endsWith
EndsWith(s, t) == Len(s) >= Len(t) /\ SubSeq(s, Len(s) - Len(t) + 1, Len(s)) = t

\* String.prototype.indexOf: the 0-based index of the first occurrence, or -1
IndexOf(s, t) ==
    LET hits == {k \in 0..(Len(s) - Len(t)) : SubSeq(s, k + 1, k + Len(t)) = t}
    IN  IF hits = {} THEN -1 ELSE CHOOSE k \in hits : \A m \in hits : k <= m

\* String.prototype.substring(from) and substring(0, to), 0-based
SubstringFrom(s, from) == SubSeq(s, from + 1, Len(s))
SubstringTo(s, to) == SubSeq(s, 1, to)

\* String.prototype.split(sep): every piece, the separators removed
RECURSIVE Split(_, _)
Split(s, sep) ==
    LET k == IndexOf(s, <<sep>>)
    IN  IF k < 0 THEN <<s>>
        ELSE <<SubSeq(s, 1, k)>> \o Split(SubstringFrom(s, k + 1), sep)

\* String.prototype.split(sep, limit): the first `limit` pieces of split(sep)
SplitLimit(s, sep, limit) ==
    LET all == Split(s, sep) IN SubSeq(all, 1, Min(limit, Len(all)))

\* dashboardUrl.replace(/\/$/, '')
StripSlash(s) == IF EndsWith(s, <<"/">>) THEN SubSeq(s, 1, Len(s) - 1) ELSE s

\* .map(line => line.trim()), line 293
TrimAll(ss) == [k \in 1..Len(ss) |-> Trim(ss[k])]

(***************************************************************************)
(* The text configuration format, run() lines 291-299.                     *)
(***************************************************************************)
TestConfig(url, goal) == [null |-> FALSE, url |-> url, goal |-> goal]

\* const [url, goal] = line.split('|', 2): goal is undefined when the line
\* has no '|', and goal.trim() then throws a TypeError
LineThrows(line) == Len(SplitLimit(line, "|", 2)) < 2

ParseLine(line) ==
    LET parts == SplitLimit(line, "|", 2)
    IN  TestConfig(Trim(parts[1]), Trim(parts[2]))

KeptLine(line) == line # <<>> /\ ~StartsWith(line, <<"#">>)

NonEmptyTest(t) == t.url # <<>> /\ t.goal # <<>>

\* .map(line => {...}), lines 295-298
ParseLines(ls) == [k \in 1..Len(ls) |-> ParseLine(ls[k])]

ParseTextConfig(content) ==
    LET lines == SelectSeq(TrimAll(Split(content, "\n")), KeptLine)
    IN  IF \E k \in 1..Len(lines) : LineThrows(lines[k])
        THEN [threw |-> TRUE, tests |-> <<>>]
        ELSE [threw |-> FALSE,
              tests |-> SelectSeq(ParseLines(lines), NonEmptyTest)]

(***************************************************************************)
(* JSON.parse on text.  A value is a record of one shape: t is its type,   *)
(* s the text of a string or number, keys and kids the member names and    *)
(* member values of an object (kids alone: the elements of an array).      *)
(* The grammar is JSON's without string escapes, signs, fractions and      *)
(* exponents.                                                              *)
(***************************************************************************)
JVal(t, s, keys, kids) == [t |-> t, s |-> s, keys |-> keys, kids |-> kids]
JUndefined == JVal("undefined", <<>>, <<>>, <<>>)
JNull == JVal("null", <<>>, <<>>, <<>>)
JTrue == JVal("true", <<>>, <<>>, <<>>)
JFalse == JVal("false", <<>>, <<>>, <<>>)
JStr(s) == JVal("string", s, <<>>, <<>>)
JNum(s) == JVal("number", s, <<>>, <<>>)
JArr(kids) == JVal("array", <<>>, <<>>, kids)
JObj(keys, kids) == JVal("object", <<>>, keys, kids)

ParseFail == [ok |-> FALSE, p |-> 0, v |-> JUndefined]
ParseOk(p, v) == [ok |-> TRUE, p |-> p, v |-> v]

At(s, p) == IF p >= 1 /\ p <= Len(s) THEN s[p] ELSE ""

RECURSIVE SkipWs(_, _)
SkipWs(s, p) == IF IsSpace(At(s, p)) THEN SkipWs(s, p + 1) ELSE p

ParseLiteral(s, p, word, v) ==
    IF p + Len(word) - 1 <= Len(s) /\ SubSeq(s, p, p + Len(word) - 1) = word
    THEN ParseOk(p + Len(word), v)
    ELSE ParseFail

\* s[p] is the opening quote; control characters may not occur in a string
ParseString(s, p) ==
    LET closes == {q \in (p + 1)..Len(s) : s[q] = "\""}
    IN  IF At(s, p) # "\"" \/ closes = {} THEN ParseFail
        ELSE LET q == CHOOSE q \in closes : \A r \in closes : q <= r
             IN  IF \E r \in (p + 1)..(q - 1) : IsSpace(s[r]) /\ s[r] # " "
                 THEN ParseFail
                 ELSE ParseOk(q + 1, JStr(SubSeq(s, p + 1, q - 1)))

IsDigit(c) == c \in {"0", "1", "2", "3", "4", "5", "6", "7", "8", "9"}

RECURSIVE DigitsEnd(_, _)
DigitsEnd(s, p) == IF IsDigit(At(s, p)) THEN DigitsEnd(s, p + 1) ELSE p

\* a number is 0 or a digit 1-9 followed by digits
ParseNumber(s, p) ==
    LET q == IF At(s, p) = "0" THEN p + 1 ELSE DigitsEnd(s, p)
    IN  ParseOk(q, JNum(SubSeq(s, p, q - 1)))

RECURSIVE ParseValue(_, _)
RECURSIVE ParseMembers(_, _, _, _)
RECURSIVE ParseElements(_, _, _)

ParseMembers(s, p, keys, kids) ==
    LET k == ParseString(s, SkipWs(s, p))
    IN  IF ~k.ok THEN ParseFail
        ELSE LET c == SkipWs(s, k.p)
             IN  IF At(s, c) # ":" THEN ParseFail
                 ELSE LET val == ParseValue(s, SkipWs(s, c + 1))
                      IN  IF ~val.ok THEN ParseFail
                          ELSE LET e == SkipWs(s, val.p)
                                   ks == Append(keys, k.v.s)
                                   vs == Append(kids, val.v)
                               IN  IF At(s, e) = "," THEN ParseMembers(s, e + 1, ks, vs)
                                   ELSE IF At(s, e) = "}" THEN ParseOk(e + 1, JObj(ks, vs))
                                   ELSE ParseFail

ParseElements(s, p, kids) ==
    LET val == ParseValue(s, SkipWs(s, p))
    IN  IF ~val.ok THEN ParseFail
        ELSE LET e == SkipWs(s, val.p)
                 vs == Append(kids, val.v)
             IN  IF At(s, e) = "," THEN ParseElements(s, e + 1, vs)
                 ELSE IF At(s, e) = "]" THEN ParseOk(e + 1, JArr(vs))
                 ELSE ParseFail

ParseValue(s, p) ==
    LET c == At(s, p)
    IN  IF c = "{"
        THEN IF At(s, SkipWs(s, p + 1)) = "}"
             THEN ParseOk(SkipWs(s, p + 1) + 1, JObj(<<>>, <<>>))
             ELSE ParseMembers(s, p + 1, <<>>, <<>>)
        ELSE IF c = "["
        THEN IF At(s, SkipWs(s, p + 1)) = "]"
             THEN ParseOk(SkipWs(s, p + 1) + 1, JArr(<<>>))
             ELSE ParseElements(s, p + 1, <<>>)
        ELSE IF c = "\"" THEN ParseString(s, p)
        ELSE IF c = "t" THEN ParseLiteral(s, p, <<"t", "r", "u", "e">>, JTrue)
        ELSE IF c = "f" THEN ParseLiteral(s, p, <<"f", "a", "l", "s", "e">>, JFalse)
        ELSE IF c = "n" THEN ParseLiteral(s, p, <<"n", "u", "l", "l">>, JNull)
        ELSE IF IsDigit(c) THEN ParseNumber(s, p)
        ELSE ParseFail

\* JSON.parse(text): ok is FALSE where JSON.parse throws a SyntaxError
JsonParse(s) ==
    LET r == ParseValue(s, SkipWs(s, 1))
    IN  IF r.ok /\ SkipWs(s, r.p) = Len(s) + 1
        THEN [ok |-> TRUE, v |-> r.v]
        ELSE [ok |-> FALSE, v |-> JUndefined]

\* parsed.<key>: the last member of that name, or undefined
Get(obj, key) ==
    LET hits == {k \in 1..Len(obj.keys) : obj.keys[k] = key}
    IN  IF obj.t # "object" \/ hits = {} THEN JUndefined
        ELSE obj.kids[CHOOSE k \in hits : \A m \in hits : k >= m]

\* JavaScript truthiness
Truthy(v) ==
    \/ v.t \in {"true", "object", "array"}
    \/ v.t = "string" /\ v.s # <<>>
    \/ v.t = "number" /\ v.s # <<"0">>

\* a || b
OrElse(a, b) == IF Truthy(a) THEN a ELSE b

(***************************************************************************)
(* runSingleTest, lines 140-258.                                           *)
(***************************************************************************)
Anchor == <<"{", "\"", "u", "r", "l", "\"">>
KeySuccess == <<"s", "u", "c", "c", "e", "s", "s">>
KeyReason == <<"r", "e", "a", "s", "o", "n">>
KeyError == <<"e", "r", "r", "o", "r">>
KeySteps == <<"s", "t", "e", "p", "s">>
KeyViolations == <<"v", "i", "o", "l", "a", "t", "i", "o", "n", "s">>
FallbackMessage == <<"Could not parse agent output">>

\* lines 153-171: what runSingleTest writes over the inherited process.env
BaseEnv(prov, apiKey, hl) ==
    {<<"HEADLESS", <<IF hl THEN "true" ELSE "false">>>>,
     <<IF prov = "openai" THEN "OPENAI_API_KEY" ELSE "GEMINI_API_KEY", apiKey>>}

\* LiveEnv with a one-based TEST_INDEX
LiveEnvOneBased(runId, testIndex, dashUrl, dashKey) ==
    IF runId # <<>> /\ dashUrl # <<>> /\ dashKey # <<>>
    THEN {<<"DASHBOARD_URL", StripSlash(dashUrl)>>,
          <<"DASHBOARD_API_KEY", dashKey>>,
          <<"TEST_RUN_ID", runId>>,
          <<"TEST_INDEX", <<ToString(testIndex + 1)>>>>}
    ELSE {}

LiveEnv(runId, testIndex, dashUrl, dashKey) ==
    IF runId # <<>> /\ dashUrl # <<>> /\ dashKey # <<>>
    THEN {<<"DASHBOARD_URL", StripSlash(dashUrl)>>,
          <<"DASHBOARD_API_KEY", dashKey>>,
          <<"TEST_RUN_ID", runId>>,
          <<"TEST_INDEX", <<ToString(testIndex)>>>>}
    ELSE {}

AgentEnv(prov, apiKey, hl, runId, testIndex, dashUrl, dashKey) ==
    BaseEnv(prov, apiKey, hl) \cup LiveEnv(runId, testIndex, dashUrl, dashKey)

\* lines 173-183
LiveArgs(runId) == IF runId # <<>> THEN <<<<"--live">>>> ELSE <<>>

AgentArgs(cfg, prov, runId) ==
    <<<<"run">>, <<"start:agent-cli">>, <<"--">>, cfg.url, cfg.goal, <<prov>>,
      <<"--json">>>> \o LiveArgs(runId)

\* lines 216-225: the end (exclusive, 0-based) of the first balanced {...}
\* of jsonStr, scanning from index k with braceCount open braces; -1 if none
RECURSIVE ScanBraces(_, _, _)
ScanBraces(jsonStr, k, braceCount) ==
    IF k >= Len(jsonStr) THEN -1
    ELSE IF jsonStr[k + 1] = "{" THEN ScanBraces(jsonStr, k + 1, braceCount + 1)
    ELSE IF jsonStr[k + 1] = "}"
         THEN IF braceCount - 1 = 0 THEN k + 1
              ELSE ScanBraces(jsonStr, k + 1, braceCount - 1)
    ELSE ScanBraces(jsonStr, k + 1, braceCount)

\* lines 210-228: the text handed to JSON.parse, if any
ExtractJson(out) ==
    LET jsonStart == IndexOf(out, Anchor)
    IN  IF jsonStart >= 0
        THEN LET jsonStr == SubstringFrom(out, jsonStart)
                 jsonEnd == ScanBraces(jsonStr, 0, 0)
             IN  IF jsonEnd > 0
                 THEN [found |-> TRUE, text |-> SubstringTo(jsonStr, jsonEnd)]
                 ELSE [found |-> FALSE, text |-> <<>>]
        ELSE [found |-> FALSE, text |-> <<>>]

\* ParsedResult taking url and goal from the agent's payload
ParsedResultAgentUrl(cfg, parsed) ==
    [url |-> Get(parsed, <<"u", "r", "l">>).s,
     goal |-> Get(parsed, <<"g", "o", "a", "l">>).s,
     success |-> OrElse(Get(parsed, KeySuccess), JFalse),
     reason |-> OrElse(Get(parsed, KeyReason), JNull),
     error |-> OrElse(Get(parsed, KeyError), JNull),
     steps |-> OrElse(Get(parsed, KeySteps), JArr(<<>>)),
     violations |-> OrElse(Get(parsed, KeyViolations), JArr(<<>>))]

\* lines 231-240 (duration, a wall-clock reading, is left out)
ParsedResult(cfg, parsed) ==
    [url |-> cfg.url,
     goal |-> cfg.goal,
     success |-> OrElse(Get(parsed, KeySuccess), JFalse),
     reason |-> OrElse(Get(parsed, KeyReason), JNull),
     error |-> OrElse(Get(parsed, KeyError), JNull),
     steps |-> OrElse(Get(parsed, KeySteps), JArr(<<>>)),
     violations |-> OrElse(Get(parsed, KeyViolations), JArr(<<>>))]

\* ErrorResult without the fallback message
ErrorResultNoFallback(cfg, err) ==
    [url |-> cfg.url,
     goal |-> cfg.goal,
     success |-> JFalse,
     reason |-> JNull,
     error |-> JStr(err),
     steps |-> JArr(<<>>),
     violations |-> JArr(<<>>)]

\* lines 248-257
ErrorResult(cfg, err) ==
    [url |-> cfg.url,
     goal |-> cfg.goal,
     success |-> JFalse,
     reason |-> JNull,
     error |-> JStr(IF err # <<>> THEN err ELSE FallbackMessage),
     steps |-> JArr(<<>>),
     violations |-> JArr(<<>>)]

\* lines 185-258: the exit status of the agent (or a failure to launch it)
\* is swallowed by the empty catch; the result depends on the output alone
RunSingleTest(cfg, out, err) ==
    LET ex == ExtractJson(out)
        parsed == JsonParse(ex.text)
    IN  IF ex.found /\ parsed.ok
        THEN ParsedResult(cfg, parsed.v)
        ELSE ErrorResult(cfg, err)

(***************************************************************************)
(* The dashboard calls, lines 46-138.  A response is what fetch gives:     *)
(* kind "ok" (response.ok, with the testRunId of its body, empty when the  *)
(* body has none), "http-error" (not ok) or "throw" (fetch or              *)
(* response.json() throws).                                                *)
(***************************************************************************)
ApiLiveStart == <<"api/live/start">>
ApiLiveComplete == <<"api/live/complete">>
RunsPath == <<"/runs/">>

\* lines 65-67 and 114-116
Endpoint(dashUrl, path) ==
    IF EndsWith(dashUrl, <<"/">>) THEN dashUrl \o path ELSE dashUrl \o <<"/">> \o path

\* tests.map(t => ({url: t.url, goal: t.goal})), line 62, throws a TypeError
\* when tests is no array or holds a null
PayloadThrows(ts) == ts.kind # "array" \/ \E k \in 1..Len(ts.elems) : ts.elems[k].null

\* lines 78-88
StartLiveRunResult(resp) == IF resp.kind = "ok" THEN resp.testRunId ELSE <<>>

\* lines 127-137
CompleteLiveRunResult(dashUrl, runId, resp) ==
    IF resp.kind = "ok" THEN StripSlash(dashUrl) \o RunsPath \o runId ELSE <<>>

Call(op, index, args, env, sent, exit) ==
    [op |-> op, index |-> index, args |-> args, env |-> env, sent |-> sent,
     exit |-> exit]

(***************************************************************************)
(* run(), lines 260-429.                                                   *)
(***************************************************************************)
NotFailed == [set |-> FALSE, message |-> "", failedTests |-> 0, totalTests |-> 0]
NoOutputs ==
    [set |-> FALSE, totalTests |-> 0, passedTests |-> 0, failedTests |-> 0,
     passRate |-> 0, results |-> <<>>, dashboardUrlSet |-> FALSE,
     dashboardUrl |-> <<>>]
NoTests == [kind |-> "undefined", elems |-> <<>>]
ArrayOf(elems) == [kind |-> "array", elems |-> elems]

\* line 273
ApiKey == IF provider = "openai" THEN openaiApiKey ELSE geminiApiKey

\* lines 287-300: the parsed tests, or the error thrown while parsing
LoadTests(file) ==
    IF file.json
    THEN IF file.malformed
         THEN [threw |-> TRUE, message |-> "SyntaxError", tests |-> NoTests]
         ELSE [threw |-> FALSE, message |-> "", tests |-> file.value]
    ELSE LET parsed == ParseTextConfig(file.text)
         IN  IF parsed.threw
             THEN [threw |-> TRUE, message |-> "TypeError", tests |-> NoTests]
             ELSE [threw |-> FALSE, message |-> "", tests |-> ArrayOf(parsed.tests)]

\* tests.length: a number for an array, undefined (-1 here) for an object
\* without that member, a number or a boolean; on null it throws
LengthOf(ts) == IF ts.kind = "array" THEN Len(ts.elems) ELSE -1

\* the catch of lines 422-428: core.setFailed(error.message)
Fatal(message) ==
    /\ pc' = "fatal"
    /\ failed' = [set |-> TRUE, message |-> message, failedTests |-> 0,
                  totalTests |-> 0]

\* lines 263-304
Setup ==
    /\ pc = "setup"
    /\ IF ApiKey = <<>>
       THEN Fatal("API key required") /\ UNCHANGED tests
       ELSE IF ~config.exists
       THEN Fatal("Test configuration file not found") /\ UNCHANGED tests
       ELSE LET loaded == LoadTests(config)
            IN  IF loaded.threw
                THEN Fatal(loaded.message) /\ UNCHANGED tests
                ELSE IF loaded.tests.kind = "null"
                THEN Fatal("TypeError") /\ tests' = loaded.tests
                ELSE IF LengthOf(loaded.tests) = 0
                THEN Fatal("No tests found in configuration file")
                     /\ tests' = loaded.tests
                ELSE /\ tests' = loaded.tests
                     /\ pc' = "live"
                     /\ UNCHANGED failed
    /\ UNCHANGED <<provider, openaiApiKey, geminiApiKey, headless,
                   continueOnFailure, dashboardUrl, dashboardApiKey, config,
                   liveTestRunId, i, results, hasFailure, stdout, stderr,
                   dashboardResultsUrl, io, outputs>>

StartResponses ==
    {[kind |-> "ok", testRunId |-> <<"r">>], [kind |-> "ok", testRunId |-> <<>>],
     [kind |-> "http-error", testRunId |-> <<>>], [kind |-> "throw", testRunId |-> <<>>]}

\* line 321
StartsLive(dashUrl, dashKey) == dashUrl # <<>> /\ dashKey # <<>>

\* lines 319-331
StartLive ==
    /\ pc = "live"
    /\ IF StartsLive(dashboardUrl, dashboardApiKey)
       THEN IF PayloadThrows(tests)
            THEN /\ liveTestRunId' = <<>>
                 /\ io' = Append(io, Call("startLiveRun", -1, <<>>, {}, FALSE, ""))
            ELSE \E resp \in StartResponses :
                    /\ liveTestRunId' = StartLiveRunResult(resp)
                    /\ io' = Append(io, Call("startLiveRun", -1,
                                 <<Endpoint(dashboardUrl, ApiLiveStart), dashboardApiKey>>,
                                 {}, TRUE, ""))
       ELSE UNCHANGED <<liveTestRunId, io>>
    /\ results' = <<>>
    /\ hasFailure' = FALSE
    /\ i' = 0
    /\ pc' = "loop"
    /\ UNCHANGED <<provider, openaiApiKey, geminiApiKey, headless,
                   continueOnFailure, dashboardUrl, dashboardApiKey, config,
                   tests, stdout, stderr, dashboardResultsUrl, outputs, failed>>

\* NextHasFailure as an assignment of the last result's failure
NextHasFailureLast(hf, result) == ~Truthy(result.success)

\* lines 356-359
NextHasFailure(hf, result) == hf \/ ~Truthy(result.success)

\* Breaks without the break
BreaksNever(result, cont) == FALSE

\* lines 356-366: the loop breaks
Breaks(result, cont) == ~Truthy(result.success) /\ ~cont

\* lines 333-370: one evaluation of the loop condition and, if it holds, one
\* iteration; agent is what the subprocess does: [stdout, stderr, exit]
LoopTest(agents) ==
    /\ pc = "loop"
    /\ IF i < LengthOf(tests)
       THEN LET test == tests.elems[i + 1]
            IN  IF test.null
                THEN \* test.url, line 338, throws a TypeError
                     /\ Fatal("TypeError")
                     /\ UNCHANGED <<i, results, hasFailure, stdout, stderr, io>>
                ELSE \E agent \in agents :
                       LET result == RunSingleTest(test, agent.stdout, agent.stderr)
                       IN  /\ io' = Append(io, Call("exec", i,
                                      AgentArgs(test, provider, liveTestRunId),
                                      AgentEnv(provider, ApiKey, headless,
                                               liveTestRunId, i, dashboardUrl,
                                               dashboardApiKey),
                                      TRUE, agent.exit))
                           /\ stdout' = agent.stdout
                           /\ stderr' = agent.stderr
                           /\ results' = Append(results, result)
                           /\ hasFailure' = NextHasFailure(hasFailure, result)
                           /\ IF Breaks(result, continueOnFailure)
                              THEN pc' = "complete" /\ i' = i
                              ELSE pc' = "loop" /\ i' = i + 1
                           /\ UNCHANGED failed
       ELSE /\ pc' = "complete"
            /\ UNCHANGED <<i, results, hasFailure, stdout, stderr, io, failed>>
    /\ UNCHANGED <<provider, openaiApiKey, geminiApiKey, headless,
                   continueOnFailure, dashboardUrl, dashboardApiKey, config,
                   tests, liveTestRunId, dashboardResultsUrl, outputs>>

CompleteResponses == {[kind |-> "ok"], [kind |-> "http-error"], [kind |-> "throw"]}

\* CompletesLive without the test of the run id
CompletesLiveAnyId(runId, dashUrl, dashKey) == dashUrl # <<>> /\ dashKey # <<>>

\* line 376
CompletesLive(runId, dashUrl, dashKey) ==
    runId # <<>> /\ dashUrl # <<>> /\ dashKey # <<>>

\* lines 372-384
CompleteLive ==
    /\ pc = "complete"
    /\ IF CompletesLive(liveTestRunId, dashboardUrl, dashboardApiKey)
       THEN \E resp \in CompleteResponses :
               /\ dashboardResultsUrl' =
                      CompleteLiveRunResult(dashboardUrl, liveTestRunId, resp)
               /\ io' = Append(io, Call("completeLiveRun", -1,
                            <<Endpoint(dashboardUrl, ApiLiveComplete),
                              dashboardApiKey, liveTestRunId>>, {}, TRUE, ""))
       ELSE dashboardResultsUrl' = <<>> /\ UNCHANGED io
    /\ pc' = "emit"
    /\ UNCHANGED <<provider, openaiApiKey, geminiApiKey, headless,
                   continueOnFailure, dashboardUrl, dashboardApiKey, config,
                   tests, liveTestRunId, i, results, hasFailure, stdout, stderr,
                   outputs, failed>>

\* results.filter(r => r.success).length, line 388
Passed(rs) == Len(SelectSeq(rs, LAMBDA r : Truthy(r.success)))

\* line 390: the pass rate in tenths of a percent, rounded half up as
\* toFixed(1) prints it; 0 when there are no results
PassRate(passedTests, totalTests) ==
    IF totalTests > 0 THEN (passedTests * 2000 + totalTests) \div (2 * totalTests)
    ELSE 0

\* lines 386-420
Emit ==
    /\ pc = "emit"
    /\ LET totalTests == Len(results)
           passedTests == Passed(results)
           failedTests == totalTests - passedTests
       IN  /\ outputs' = [set |-> TRUE, totalTests |-> totalTests,
                          passedTests |-> passedTests, failedTests |-> failedTests,
                          passRate |-> PassRate(passedTests, totalTests),
                          results |-> results,
                          dashboardUrlSet |-> dashboardResultsUrl # <<>>,
                          dashboardUrl |-> dashboardResultsUrl]
           /\ failed' = IF hasFailure
                        THEN [set |-> TRUE, message |-> "accessibility tests failed",
                              failedTests |-> failedTests, totalTests |-> totalTests]
                        ELSE failed
    /\ pc' = "done"
    /\ UNCHANGED <<provider, openaiApiKey, geminiApiKey, headless,
                   continueOnFailure, dashboardUrl, dashboardApiKey, config,
                   tests, liveTestRunId, i, results, hasFailure, stdout, stderr,
                   dashboardResultsUrl, io>>

(***************************************************************************)
(* Inputs.                                                                 *)
(***************************************************************************)
SeqsUpTo(S, n) == UNION {[1..k -> S] : k \in 0..n}

RECURSIVE Flatten(_)
Flatten(ss) == IF ss = <<>> THEN <<>> ELSE Head(ss) \o Flatten(Tail(ss))

RECURSIVE JoinLines(_)
JoinLines(ls) ==
    IF ls = <<>> THEN <<>>
    ELSE IF Len(ls) = 1 THEN ls[1]
    ELSE ls[1] \o <<"\n">> \o JoinLines(Tail(ls))

\* provider, openai-api-key, gemini-api-key
KeyInputs ==
    {<<"openai", <<"k">>, <<>>>>, <<"openai", <<>>, <<"k">>>>,
     <<"gemini", <<>>, <<"k">>>>, <<"gemini", <<"k">>, <<>>>>}
DashboardUrls == {<<>>, <<"d">>, <<"d", "/">>}
DashboardKeys == {<<>>, <<"s">>}

File(exists, json, malformed, value, text) ==
    [exists |-> exists, json |-> json, malformed |-> malformed, value |-> value,
     text |-> text]

\* what a JSON configuration parses to: an array of {url, goal} objects and
\* nulls, null, an object, or a number or boolean
TestA == TestConfig(<<"a">>, <<"g">>)
TestB == TestConfig(<<"b">>, <<"h">>)
NullElem == [null |-> TRUE, url |-> <<>>, goal |-> <<>>]
JsonElems == {TestA, TestB, NullElem}
JsonValues ==
    {[kind |-> k, elems |-> <<>>] : k \in {"null", "object", "scalar"}}
        \cup {ArrayOf(e) : e \in SeqsUpTo(JsonElems, MaxTests)}
JsonFiles ==
    {File(TRUE, TRUE, FALSE, v, <<>>) : v \in JsonValues}
        \cup {File(TRUE, TRUE, TRUE, NoTests, <<>>)}

\* text configurations made of whole lines
SampleLines ==
    {<<"a", "|", "g">>, <<" ", "b", " ", "|", "h", "|", "x">>, <<"n">>,
     <<"#", "c">>, <<"|", "g">>}
SampleTextFiles ==
    {File(TRUE, FALSE, FALSE, NoTests, JoinLines(ls)) :
        ls \in SeqsUpTo(SampleLines, MaxLines)}

\* every text configuration of up to MaxConfigLen characters
ConfigChars == {"a", "b", " ", "|", "#", "\n"}
AllTextFiles ==
    {File(TRUE, FALSE, FALSE, NoTests, t) : t \in SeqsUpTo(ConfigChars, MaxConfigLen)}

MissingFile == File(FALSE, FALSE, FALSE, NoTests, <<>>)

ConfigFiles == JsonFiles \cup SampleTextFiles \cup {MissingFile}

\* what an agent prints: a passing payload between log lines
PassOut ==
    <<"l", "o", "g", " ", "{", "\"", "u", "r", "l", "\"", ":", "\"", "x",
    "\"", ",", "\"", "s", "u", "c", "c", "e", "s", "s", "\"", ":", "t", "r",
    "u", "e", ",", "\"", "r", "e", "a", "s", "o", "n", "\"", ":", "\"", "o",
    "k", "\"", "}", " ", "e", "n", "d">>

\* a failing payload
FailOut ==
    <<"{", "\"", "u", "r", "l", "\"", ":", "\"", "x", "\"", ",", "\"", "s",
    "u", "c", "c", "e", "s", "s", "\"", ":", "f", "a", "l", "s", "e", ",",
    "\"", "e", "r", "r", "o", "r", "\"", ":", "\"", "e", "\"", "}">>

Exits == {"zero", "non-zero", "launch-error"}
Agent(out, err, exit) == [stdout |-> out, stderr |-> err, exit |-> exit]
SampleAgents ==
    {Agent(PassOut, <<>>, "zero"), Agent(FailOut, <<"E">>, "non-zero"),
     Agent(<<>>, <<>>, "launch-error")}

\* every agent output made of up to MaxChunks of these pieces
ChunkOpen ==
    <<"{", "\"", "u", "r", "l", "\"", ":", "\"", "x", "\"">>
ChunkSuccess ==
    <<",", "\"", "s", "u", "c", "c", "e", "s", "s", "\"", ":", "t", "r", "u", "e">>
ChunkReason ==
    <<",", "\"", "r", "e", "a", "s", "o", "n", "\"", ":", "\"", "}", "\"">>
ChunkSteps ==
    <<",", "\"", "s", "t", "e", "p", "s", "\"", ":", "[", "{", "}", "]">>
ChunkClose ==
    <<"}">>
ChunkNoise ==
    <<"l", "o", "g">>
Chunks == {ChunkOpen, ChunkSuccess, ChunkReason, ChunkSteps, ChunkClose, ChunkNoise}
AllAgents ==
    {Agent(Flatten(cs), err, exit) :
        cs \in SeqsUpTo(Chunks, MaxChunks), err \in {<<>>, <<"E">>}, exit \in Exits}

(***************************************************************************)
(* Specifications.                                                         *)
(***************************************************************************)
Start ==
    /\ pc = "setup"
    /\ tests = NoTests
    /\ liveTestRunId = <<>>
    /\ i = 0
    /\ results = <<>>
    /\ hasFailure = FALSE
    /\ stdout = <<>>
    /\ stderr = <<>>
    /\ dashboardResultsUrl = <<>>
    /\ io = <<>>
    /\ outputs = NoOutputs
    /\ failed = NotFailed

\* the inputs that steer run(), on the sample configurations and the sample
\* agents
Init ==
    /\ Start
    /\ \E k \in KeyInputs :
          provider = k[1] /\ openaiApiKey = k[2] /\ geminiApiKey = k[3]
    /\ headless = TRUE
    /\ continueOnFailure \in BOOLEAN
    /\ dashboardUrl \in DashboardUrls
    /\ dashboardApiKey \in DashboardKeys
    /\ config \in ConfigFiles

Next ==
    \/ Setup
    \/ StartLive
    \/ LoopTest(SampleAgents)
    \/ CompleteLive
    \/ Emit

Spec == Init /\ [][Next]_vars

\* one test, every agent output, headless or not
InitAgent ==
    /\ Start
    /\ provider = "openai"
    /\ openaiApiKey = <<"k">>
    /\ geminiApiKey = <<>>
    /\ headless \in BOOLEAN
    /\ continueOnFailure = TRUE
    /\ dashboardUrl = <<>>
    /\ dashboardApiKey = <<>>
    /\ config = File(TRUE, TRUE, FALSE, ArrayOf(<<TestA>>), <<>>)

NextAgent ==
    \/ Setup
    \/ StartLive
    \/ LoopTest(AllAgents)
    \/ CompleteLive
    \/ Emit

SpecAgent == InitAgent /\ [][NextAgent]_vars

\* every text configuration, on the sample agents
InitConfig ==
    /\ Start
    /\ provider = "openai"
    /\ openaiApiKey = <<"k">>
    /\ geminiApiKey = <<>>
    /\ headless = TRUE
    /\ continueOnFailure \in BOOLEAN
    /\ dashboardUrl = <<>>
    /\ dashboardApiKey = <<>>
    /\ config \in AllTextFiles

SpecConfig == InitConfig /\ [][Next]_vars

(***************************************************************************)
(* Vocabulary of the properties.                                           *)
(***************************************************************************)
CallsOf(op) == {k \in 1..Len(io) : io[k].op = op}
ExecCalls == SelectSeq(io, LAMBDA c : c.op = "exec")
NumTests == IF tests.kind = "array" THEN Len(tests.elems) ELSE 0
FailedResults == {k \in 1..Len(results) : ~Truthy(results[k].success)}
LoopOver == pc \in {"complete", "emit", "done"}
EnvNames(c) == {e[1] : e \in c.env}
EnvValues(c, name) == {e[2] : e \in {d \in c.env : d[1] = name}}
HasLiveFlag(c) == \E k \in 1..Len(c.args) : c.args[k] = <<"--live">>
LiveNames == {"DASHBOARD_URL", "DASHBOARD_API_KEY", "TEST_RUN_ID", "TEST_INDEX"}

\* C1: at every point of run(), results is aligned position by position with
\* a prefix of the configured tests (same url and goal, whatever the agent
\* printed), and the agents were launched for tests 0, 1, 2, ... in that
\* order, one result per launch.
C1_ResultsAligned ==
    /\ Len(results) <= NumTests
    /\ \A k \in 1..Len(results) :
          /\ results[k].url = tests.elems[k].url
          /\ results[k].goal = tests.elems[k].goal
    /\ Len(ExecCalls) = Len(results)
    /\ \A k \in 1..Len(ExecCalls) : ExecCalls[k].index = k - 1

C1_Witness ==
    /\ pc = "done"
    /\ Len(results) >= 2
    /\ results[1].url # results[2].url
    /\ Truthy(results[1].success)
    /\ IndexOf(stdout, Anchor) >= 0

C3_State ==
    /\ pc \in {"loop", "complete", "emit", "done"} =>
          (hasFailure <=> FailedResults # {})
    /\ pc = "done" =>
          /\ failed.set <=> FailedResults # {}
          /\ failed.set =>
                /\ failed.message = "accessibility tests failed"
                /\ failed.failedTests = Cardinality(FailedResults)
                /\ failed.totalTests = Len(results)
          /\ outputs.set
          /\ outputs.totalTests = Len(results)
          /\ outputs.failedTests = Cardinality(FailedResults)
          /\ outputs.passedTests + outputs.failedTests = outputs.totalTests
    /\ pc \in {"loop", "complete", "emit"} => ~failed.set

NoAnchorIn(out) ==
    ~\E k \in 1..Len(out) :
        k + Len(Anchor) - 1 <= Len(out) /\ SubSeq(out, k, k + Len(Anchor) - 1) = Anchor
Recovered(out) == ExtractJson(out).found /\ JsonParse(ExtractJson(out).text).ok

C4_NeverThrows ==
    /\ pc # "fatal"
    /\ Len(results) = Len(ExecCalls)
    /\ Len(results) = 1 =>
          /\ NoAnchorIn(stdout) => ~Recovered(stdout)
          /\ ~Recovered(stdout) =>
                /\ results[1].success = JFalse
                /\ results[1].error.t = "string"
                /\ results[1].error.s # <<>>
                /\ results[1].error.s =
                       (IF stderr # <<>> THEN stderr ELSE FallbackMessage)
                /\ results[1].steps = JArr(<<>>)
                /\ results[1].violations = JArr(<<>>)

C4_Witness ==
    /\ Len(results) = 1
    /\ ~NoAnchorIn(stdout)
    /\ ExtractJson(stdout).found
    /\ ~JsonParse(ExtractJson(stdout).text).ok
    /\ stderr = <<>>
    /\ io[Len(io)].exit = "launch-error"

\* C5: when stdout is log noise, then one well-formed JSON object that starts
\* with {"url", then log noise, the result carries the success, reason, error,
\* steps and violations of that object.
PayloadEnds(out) ==
    LET p == IndexOf(out, Anchor)
    IN  IF p < 0 THEN {}
        ELSE {q \in (p + 1)..Len(out) :
                 out[q] = "}" /\ JsonParse(SubSeq(out, p + 1, q)).ok}

C5_RecoversPayload ==
    Len(results) = 1 =>
        \A q \in PayloadEnds(stdout) :
            results[1] =
                ParsedResult(tests.elems[1],
                    JsonParse(SubSeq(stdout, IndexOf(stdout, Anchor) + 1, q)).v)

\* C6: in a text configuration a line without '|', or with an empty url or
\* goal, is left out without failing the run: the lines that have both are
\* loaded in file order, and only a configuration with no such line is
\* refused, with 'No tests found'.
KeptLines(text) == SelectSeq(TrimAll(Split(text, "\n")), KeptLine)
HasSeparator(line) == \E k \in 1..Len(line) : line[k] = "|"
ValidLines(text) ==
    SelectSeq(ParseLines(SelectSeq(KeptLines(text), HasSeparator)), NonEmptyTest)

C6_BadLinesDropped ==
    (pc # "setup" /\ ~config.json) =>
        /\ ValidLines(config.text) # <<>> =>
              pc # "fatal" /\ tests = ArrayOf(ValidLines(config.text))
        /\ ValidLines(config.text) = <<>> => pc = "fatal"
        /\ failed.message = "No tests found in configuration file" =>
              ValidLines(config.text) = <<>>

\* C7: run() either stops with a fatal error before any agent is launched or
\* any dashboard call is made, or goes on with a non-empty sequence of test
\* cases; a run that reaches its end has executed at least one test and
\* reports total-tests >= 1.
C7_NonEmptyOrFatal ==
    /\ pc = "fatal" => \A k \in 1..Len(io) : ~io[k].sent
    /\ pc \notin {"setup", "fatal"} =>
          tests.kind = "array" /\ Len(tests.elems) >= 1
    /\ pc = "done" => Len(ExecCalls) >= 1 /\ outputs.totalTests >= 1

\* C8: startLiveRun is called at most once, as the first call of the run,
\* and only with both dashboard inputs set; completeLiveRun is called at
\* most once, after the last agent and before the outputs are set, and once
\* the loop is left it has been called exactly when startLiveRun returned a
\* run id; without a run id the tests run all the same, completeLiveRun is
\* never called and the dashboard-url output is not set.
C8_LiveLifecycle ==
    /\ Cardinality(CallsOf("startLiveRun")) <= 1
    /\ \A k \in CallsOf("startLiveRun") :
          k = 1 /\ dashboardUrl # <<>> /\ dashboardApiKey # <<>>
    /\ liveTestRunId # <<>> =>
          CallsOf("startLiveRun") = {1} /\ io[1].sent
    /\ Cardinality(CallsOf("completeLiveRun")) <= 1
    /\ \A k \in CallsOf("completeLiveRun") :
          k = Len(io) /\ pc \in {"emit", "done"} /\ liveTestRunId # <<>>
    /\ pc = "emit" => ~outputs.set
    /\ pc \in {"emit", "done"} =>
          (CallsOf("completeLiveRun") # {} <=> liveTestRunId # <<>>)
    /\ liveTestRunId = <<>> =>
          /\ CallsOf("completeLiveRun") = {}
          /\ ~outputs.dashboardUrlSet
          /\ (LoopOver /\ continueOnFailure) => Len(ExecCalls) = NumTests
          /\ (LoopOver /\ FailedResults = {}) => Len(ExecCalls) = NumTests

C8_Witness ==
    /\ pc = "done"
    /\ CallsOf("completeLiveRun") # {}
    /\ outputs.dashboardUrlSet
    /\ hasFailure
    /\ Len(results) < NumTests

\* C9: in a text configuration line the url is the trimmed text before the
\* first '|' and the goal the whole trimmed rest of the line, further '|'
\* included.
FirstBar(line) == IndexOf(line, <<"|">>)
SplitAtFirstBar(line) ==
    TestConfig(Trim(SubstringTo(line, FirstBar(line))),
               Trim(SubstringFrom(line, FirstBar(line) + 1)))

C9_GoalIsRemainder ==
    (pc = "live" /\ ~config.json) =>
        tests.elems =
            SelectSeq([k \in 1..Len(KeptLines(config.text)) |->
                          SplitAtFirstBar(KeptLines(config.text)[k])],
                      NonEmptyTest)

====
